---- MODULE Spec2Model ----
(***************************************************************************)
(* Checkout step state machine (useCheckoutSteps), cart cache (useCart)    *)
(* and the checkout page that composes them, with the commerce platform    *)
(* as an asynchronous peer whose responses may arrive in any order.        *)
(*                                                                         *)
(* React state is modelled as variables.  A passive effect runs after the  *)
(* render that follows a change of one of its dependencies and before the  *)
(* next event is handled: effectPending marks that window, and only        *)
(* RunEffect is enabled in it.  A handler suspended at an await is a       *)
(* record in inflight; it carries what its closure captured.               *)
(***************************************************************************)
EXTENDS Integers, Sequences, FiniteSets, TLC

\* ---------------------------------------------------------------- bounds
MaxCalls == 3        \* platform calls the page issues per session
MaxDirectCalls == 2  \* useCart operations a direct caller starts

\* ------------------------------------------------------------- constants
NumSteps == 4
Bogus == "bogus"     \* a string that is not a step id
NoError == "none"
\* What useParams / searchParams.get give when the segment or parameter is
\* absent (undefined / null).
None == "<none>"

StepOrder == <<"customer", "shipping", "payment", "review">>
StepIdSet == {StepOrder[i] : i \in 1..NumSteps}

VARIABLES
  steps,          \* useCheckoutSteps: steps array
  currentStep,    \* useCheckoutSteps: currentStep
  effectPending,  \* a dependency of the cart effect changed; effect not yet run
  thrown,         \* a call of a step operation threw
  cart,           \* useCart: cached cart
  loading, updating, submitting, error,   \* useCart flags
  remote,         \* the platform's cart
  inflight,       \* suspended handlers awaiting the platform
  issued,         \* number of platform calls issued
  mounted,        \* CheckoutPage mount effect has run
  pf,             \* PaymentForm local state
  orderComplete,  \* CheckoutPage: orderComplete && completedOrder
  orders,         \* orders the platform created from this cart
  hist            \* history: what has happened so far (read by properties only)

vars == <<steps, currentStep, effectPending, thrown, cart, loading, updating,
          submitting, error, remote, inflight, issued, mounted,
          pf, orderComplete, orders, hist>>

\* ------------------------------------------------------------ step hook
initialSteps ==
  [i \in 1..NumSteps |->
     [id |-> StepOrder[i], completed |-> FALSE, active |-> (i = 1)]]

\* steps.map(step => ({...step, active: step.id === stepId}))
goToStepMap(s, stepId) ==
  [i \in 1..NumSteps |-> [s[i] EXCEPT !.active = (s[i].id = stepId)]]

\* steps.map(step => step.id === stepId ? {...step, completed: true} : step)
completeStepMap(s, stepId) ==
  [i \in 1..NumSteps |->
     IF s[i].id = stepId THEN [s[i] EXCEPT !.completed = TRUE] ELSE s[i]]

\* steps.findIndex(step => step.active), 1-based; 0 when none (JS -1)
findActive(s) ==
  IF \E i \in 1..NumSteps : s[i].active
  THEN CHOOSE i \in 1..NumSteps :
         s[i].active /\ \A j \in 1..(i - 1) : ~s[j].active
  ELSE 0

ActiveSet(s) == {i \in 1..NumSteps : s[i].active}

\* The hook's state as one value: h.steps, h.currentStep, h.thrown.
Hook == [steps |-> steps, currentStep |-> currentStep, thrown |-> thrown]

\* setCurrentStep(stepId); setSteps(steps => ...active: step.id === stepId)
goToStep(h, stepId) ==
  [h EXCEPT !.currentStep = stepId, !.steps = goToStepMap(h.steps, stepId)]

completeStep(h, stepId) ==
  [h EXCEPT !.steps = completeStepMap(h.steps, stepId)]

\* Mutant of nextStepFrom: the next step is activated, the current one is
\* not marked completed.
nextStepFrom_NoComplete(currentIndex, h) ==
  IF currentIndex + 1 <= NumSteps
  THEN IF currentIndex = 0
       THEN [h EXCEPT !.thrown = TRUE]
       ELSE goToStep(h, StepOrder[currentIndex + 1])
  ELSE h

\* cs is the steps array the closure captured at render time; the setters use
\* functional updates and so act on the latest state h.  With no active step
\* steps[currentIndex] is undefined and reading .id throws before any setter.
\* The ids of cs never change, so cs[i].id is StepOrder[i] and only the index
\* of the active step of cs matters.
nextStepFrom(currentIndex, h) ==
  IF currentIndex + 1 <= NumSteps
  THEN IF currentIndex = 0
       THEN [h EXCEPT !.thrown = TRUE]
       ELSE goToStep(completeStep(h, StepOrder[currentIndex]),
                     StepOrder[currentIndex + 1])
  ELSE h

nextStep(cs, h) == nextStepFrom(findActive(cs), h)

prevStep(cs, h) ==
  LET currentIndex == findActive(cs)
  IN  IF currentIndex - 1 >= 1
      THEN goToStep(h, cs[currentIndex - 1].id)
      ELSE h

\* ------------------------------------------------------------------ carts
\* A cart snapshot, reduced to what the code reads: whether it has items and
\* whether each field the step derivation looks at is present (truthy).
\* origin: "null" (no cart), "platform" (the session's or checkout id's cart),
\* "demo" (platform cart the client emptied and refilled with a demo item),
\* "literal" (the object literal createDemoCart returns on failure).
\* rev counts the mutations the platform has applied.
Cart(o, it, fn, ln, em, a1, me, rv) ==
  [origin |-> o, items |-> it, first |-> fn, last |-> ln, email |-> em,
   addr1 |-> a1, method |-> me, rev |-> rv]

NullCart == Cart("null", FALSE, FALSE, FALSE, FALSE, FALSE, FALSE, 0)
LiteralDemoCart == Cart("literal", TRUE, FALSE, FALSE, FALSE, FALSE, FALSE, 0)

IsNull(c) == c.origin = "null"
\* currentCart && currentCart.items && currentCart.items.length > 0
Usable(c) == ~IsNull(c) /\ c.items

hasCustomerInfo(c) == c.first /\ c.last /\ c.email
hasShipping(c) == c.addr1
hasPayment(c) == c.method

\* Mutant of deriveCompleted: the flags are recomputed from the cart alone,
\* without "|| step.completed".
deriveCompleted_Recomputed(s, c) ==
  [i \in 1..NumSteps |->
     [s[i] EXCEPT !.completed =
        \/ (s[i].id = "customer" /\ hasCustomerInfo(c))
        \/ (s[i].id = "shipping" /\ hasShipping(c))
        \/ (s[i].id = "payment" /\ hasPayment(c))]]

\* Mutant of deriveCompleted: the shipping clause tests the billing address
\* data instead of shipping.address1.
deriveCompleted_NoShipping(s, c) ==
  [i \in 1..NumSteps |->
     [s[i] EXCEPT !.completed =
        \/ (s[i].id = "customer" /\ hasCustomerInfo(c))
        \/ (s[i].id = "shipping" /\ hasCustomerInfo(c))
        \/ (s[i].id = "payment" /\ hasPayment(c))
        \/ s[i].completed]]

\* completed: (id === 'customer' && hasCustomerInfo) || ... || step.completed
deriveCompleted(s, c) ==
  [i \in 1..NumSteps |->
     [s[i] EXCEPT !.completed =
        \/ (s[i].id = "customer" /\ hasCustomerInfo(c))
        \/ (s[i].id = "shipping" /\ hasShipping(c))
        \/ (s[i].id = "payment" /\ hasPayment(c))
        \/ s[i].completed]]

\* Mutant of autoAdvanceTarget: the branch for a cart with customer, shipping
\* and payment data is missing, so such a cart lands on payment.
autoAdvanceTarget_NoReview(c) ==
  IF hasCustomerInfo(c) /\ hasShipping(c) THEN "payment"
  ELSE IF hasCustomerInfo(c) THEN "shipping"
  ELSE ""

\* The step the auto-advance branch selects, or "" when it selects none.
autoAdvanceTarget(c) ==
  IF hasCustomerInfo(c) /\ hasShipping(c) /\ hasPayment(c) THEN "review"
  ELSE IF hasCustomerInfo(c) /\ hasShipping(c) THEN "payment"
  ELSE IF hasCustomerInfo(c) THEN "shipping"
  ELSE ""

\* The body of useEffect(..., [cart, currentStep]).
cartEffect(h, c) ==
  IF IsNull(c) THEN h
  ELSE LET d == [h EXCEPT !.steps = deriveCompleted(h.steps, c)]
       IN  IF h.currentStep = "customer" /\ autoAdvanceTarget(c) # ""
           THEN goToStep(d, autoAdvanceTarget(c))
           ELSE d

\* ------------------------------------------------------------ form data
\* Form data and update payloads are reduced to the names of their fields
\* (keys) and which of them hold a non-empty value (filled).
\* The address fields a cart mutation may carry.
AllowedAddressFields ==
  {"first_name", "last_name", "address1", "address2", "city", "state",
   "zip", "country", "phone"}

\* validateForm of CustomerInfoForm: the fields it requires to be non-empty.
RequiredCustomerFields ==
  {"first_name", "last_name", "email", "address1", "city", "state", "zip"}

validateForm(data) == RequiredCustomerFields \subseteq data.filled

NoData == [keys |-> {}, filled |-> {}]
NoPayload == [section |-> "none", keys |-> {}, filled |-> {}]

\* What CustomerInfoForm can hand to onSubmit: its formData always has the
\* nine address keys and email; "confirm" stands for any further field a
\* caller's object carries.  The last input fails validateForm.
CustomerInputs ==
  {[keys |-> AllowedAddressFields \cup {"email"} \cup x,
    filled |-> RequiredCustomerFields \cup {"country"} \cup o] :
      x \in SUBSET {"confirm"}, o \in SUBSET {"phone"}}
  \cup {[keys |-> AllowedAddressFields \cup {"email"},
         filled |-> {"first_name", "email", "country"}]}

\* What ShippingForm hands to onSubmit: nine address keys and same_as_billing.
\* With "same as billing" ticked the fields are copied from billing and
\* address1 may be empty.
ShippingInputs ==
  {[keys |-> AllowedAddressFields \cup {"same_as_billing"},
    filled |-> {"first_name", "last_name", "country"} \cup a \cup b] :
      a \in SUBSET {"address1"}, b \in SUBSET {"same_as_billing"}}

\* Mutant of allowedBillingFields: the form data is passed on as it is, as
\* the earlier revision of handleCustomerInfoSubmit did.
allowedBillingFields_Raw(data) ==
  [section |-> "billing", keys |-> data.keys, filled |-> data.filled]

\* The object literal allowedBillingFields and updateCart's argument.
\* A key of the literal whose value is undefined or "" counts as not filled.
Project(section, data, ks) ==
  [section |-> section, keys |-> ks, filled |-> data.filled \cap ks]

allowedBillingFields(data) ==
  Project("billing", data,
          {"first_name", "last_name", "address1", "address2", "city",
           "state", "zip", "country", "phone"})

allowedShippingFields(data) ==
  Project("shipping", data,
          {"first_name", "last_name", "address1", "address2", "city",
           "state", "zip", "country", "phone"})

\* --------------------------------------------------------------- platform
\* swell.cart.update(p) on the platform's cart r: the named fields of the
\* section are overwritten, the rest kept; the platform creates the cart if
\* there is none.
Overwrite(p, key, old) == IF key \in p.keys THEN key \in p.filled ELSE old

ApplyUpdate(r, p) ==
  LET o == IF IsNull(r) THEN "platform" ELSE r.origin
  IN  IF p.section = "billing"
      THEN [r EXCEPT !.origin = o, !.rev = r.rev + 1,
                     !.first = Overwrite(p, "first_name", r.first),
                     !.last = Overwrite(p, "last_name", r.last),
                     !.email = Overwrite(p, "email", r.email),
                     !.method = Overwrite(p, "method", r.method)]
      ELSE IF p.section = "shipping"
      THEN [r EXCEPT !.origin = o, !.rev = r.rev + 1,
                     !.addr1 = Overwrite(p, "address1", r.addr1)]
      ELSE IF p.section = "account"
      THEN [r EXCEPT !.origin = o, !.rev = r.rev + 1]
      ELSE r

\* The platform's cart once createDemoCart's setItems([]) and addItem went
\* through: same cart, its items replaced by the demo item.
DemoRemote(r) ==
  [r EXCEPT !.origin = "demo", !.items = TRUE, !.rev = r.rev + 1]

\* The carts a session can start from.
InitialCarts ==
  {NullCart} \cup
  {Cart("platform", it, fn, ln, em, a1, me, 0) :
     it \in BOOLEAN, fn \in BOOLEAN, ln \in BOOLEAN, em \in BOOLEAN,
     a1 \in BOOLEAN, me \in BOOLEAN}

\* ------------------------------------------------------------- page views
\* CheckoutPage's early returns, in order.
ErrorView == error # NoError
LoadingView == ~ErrorView /\ loading /\ IsNull(cart)
EmptyView == ~ErrorView /\ ~LoadingView /\ ~loading /\ ~Usable(cart)
MainView == ~ErrorView /\ ~LoadingView /\ ~EmptyView

\* The same test on the state an action leads to.
PaymentFormShown(e, l, c, cur) ==
  /\ e = NoError
  /\ ~(l /\ IsNull(c))
  /\ ~(~l /\ ~Usable(c))
  /\ cur = "payment"

\* PaymentForm's useState initial values.
\* req is the id of the submission this instance is processing, 0 when
\* processing is false; elements is "pending" (useStripeElements, not yet
\* created), "created" (elementsCreated) or "manual" (!useStripeElements).
PfInit == [req |-> 0, error |-> FALSE, cartReady |-> FALSE,
           elements |-> "pending"]

\* A request suspended at an await.
\* form names the form whose handleSubmit awaits it ("none": no handler
\* awaits), at is the index of the active step in the steps array that
\* handler's onNext closed over, data the form data it holds.
Request(i, op, phase, ok, resp, payload, form, cs, data) ==
  [id |-> i, op |-> op, phase |-> phase, ok |-> ok, resp |-> resp,
   payload |-> payload, form |-> form, at |-> findActive(cs), data |-> data,
   code |-> "none"]

\* cartSets: setCart calls so far (capped at 2); loadEnd: how the last
\* loadCartByCheckoutId ended; writer, writerOp: the request whose response
\* the cache holds; okUpd: the latest-issued update whose successful
\* response has arrived; navigated: the user has navigated by hand;
\* afterOrder: swell.cart.submitOrder calls made once an order was returned;
\* latest: the latest-issued request whose response has been set as the cart;
\* retreatTo: the index of the step before the active one when prevStep was
\* the last thing to happen besides the cart effect, else 0; seen: the steps
\* whose data some cart held when the cart effect ran; advanced: nextStep or
\* completeStep has completed a step; url: the URL the page was mounted on;
\* loadArg: the argument the mount effect gave to loadCartByCheckoutId.
HistInit == [cartSets |-> 0, loadEnd |-> "none", writer |-> 0,
             writerOp |-> "none", okUpd |-> 0, navigated |-> FALSE,
             afterOrder |-> 0, latest |-> 0, retreatTo |-> 0, seen |-> {},
             advanced |-> FALSE,
             url |-> [path |-> None, checkout_id |-> None, id |-> None],
             loadArg |-> None, submitEnd |-> "none"]

InitWith(carts) ==
  /\ steps = initialSteps
  /\ currentStep = "customer"
  /\ effectPending = FALSE
  /\ thrown = FALSE
  /\ cart = NullCart
  /\ loading = FALSE
  /\ updating = FALSE
  /\ submitting = FALSE
  /\ error = NoError
  /\ remote \in carts
  /\ inflight = {}
  /\ issued = 0
  /\ mounted = FALSE
  /\ pf = PfInit
  /\ orderComplete = FALSE
  /\ orders = 0
  /\ hist = HistInit

Init == InitWith(InitialCarts)

\* ---------------------------------------------------------------- helpers
SetHook(h) ==
  /\ steps' = h.steps
  /\ currentStep' = h.currentStep
  /\ thrown' = h.thrown

\* PaymentForm is unmounted, and its state lost, when the page stops
\* rendering it; p is its state otherwise.
PfNext(p) ==
  pf' = IF PaymentFormShown(error', loading', cart', currentStep')
        THEN p ELSE PfInit

Min(a, b) == IF a < b THEN a ELSE b
Max(a, b) == IF a > b THEN a ELSE b

\* History of a setCart(response of request id).
HistSetCart(hh, id, op) ==
  [hh EXCEPT !.cartSets = Min(2, hh.cartSets + 1), !.writer = id,
             !.writerOp = op, !.latest = Max(hh.latest, id),
             !.retreatTo = 0]

\* History of a navigation by hand; to is the step prevStep is to activate.
HistNavigate(hh, to) == [hh EXCEPT !.navigated = TRUE, !.retreatTo = to]

\* History of a run of the cart effect on cart c.
HistEffect(hh, c) ==
  IF IsNull(c) THEN hh
  ELSE [hh EXCEPT !.seen = @ \cup {i \in 1..NumSteps :
                                      \/ i = 1 /\ hasCustomerInfo(c)
                                      \/ i = 2 /\ hasShipping(c)
                                      \/ i = 3 /\ hasPayment(c)}]

Plain(id, op, phase, ok, resp) ==
  Request(id, op, phase, ok, resp, NoPayload, "none", initialSteps, NoData)

\* ------------------------------------------------------- useCart: issue
\* Each operation runs up to its first await: the flag is set and the call
\* reaches the platform, which answers from (and, for update, changes) its
\* cart now; the answer is delivered later, in any order.
fetchCart ==
  /\ issued < MaxCalls
  /\ \E ok \in BOOLEAN :
       inflight' = inflight \cup {Plain(issued + 1, "fetch", "get", ok, remote)}
  /\ issued' = issued + 1
  /\ loading' = TRUE
  /\ UNCHANGED <<cart, updating, submitting, error, remote>>

\* swell.cart.recover(checkoutId) rejects, resolves to nothing, or resolves
\* to the cart of that checkout.
loadCartByCheckoutId ==
  /\ issued < MaxCalls
  /\ \E res \in {"reject", "null", "cart"} :
       inflight' = inflight \cup
         {Plain(issued + 1, "load", "recover", res # "reject",
                IF res = "cart" THEN remote ELSE NullCart)}
  /\ issued' = issued + 1
  /\ loading' = TRUE
  /\ error' = NoError
  /\ UNCHANGED <<cart, updating, submitting, remote>>

updateCart(updates, form, data) ==
  /\ issued < MaxCalls
  /\ \E ok \in BOOLEAN :
       LET r2 == IF ok THEN ApplyUpdate(remote, updates) ELSE remote
       IN  /\ remote' = r2
           /\ inflight' = inflight \cup
                {Request(issued + 1, "update", "update", ok, r2, updates,
                         form, steps, data)}
  /\ issued' = issued + 1
  /\ updating' = TRUE
  /\ UNCHANGED <<cart, loading, submitting, error>>

\* ----------------------------------------------------- useCart: responses
\* createDemoCart starts: four platform calls in a row.  They all go through
\* ("ok"), or the first rejects ("failFirst", nothing changed), or the cart
\* is emptied and refilled but the final cart.get rejects ("failLast"); on
\* any rejection the function returns its literal cart.
StartDemo(r) ==
  \E d \in {"ok", "failFirst", "failLast"} :
    /\ remote' = IF d = "failFirst" THEN remote ELSE DemoRemote(remote)
    /\ inflight' = (inflight \ {r}) \cup
         {[r EXCEPT !.phase = "demo",
                    !.resp = IF d = "ok" THEN DemoRemote(remote)
                             ELSE LiteralDemoCart]}

FetchResolved(r) ==
  /\ ~effectPending
  /\ r.op = "fetch" /\ r.phase = "get"
  /\ IF ~r.ok
     THEN /\ error' = "Failed to fetch cart"
          /\ loading' = FALSE
          /\ inflight' = inflight \ {r}
          /\ UNCHANGED <<cart, remote, hist, effectPending>>
     ELSE IF Usable(r.resp)
     THEN /\ cart' = r.resp
          /\ error' = NoError
          /\ loading' = FALSE
          /\ inflight' = inflight \ {r}
          /\ hist' = HistSetCart(hist, r.id, r.op)
          /\ effectPending' = TRUE
          /\ UNCHANGED remote
     ELSE /\ StartDemo(r)
          /\ UNCHANGED <<cart, error, loading, hist, effectPending>>
  /\ UNCHANGED <<steps, currentStep, thrown, updating, submitting, issued,
                 mounted, orderComplete, orders>>
  /\ PfNext(pf)

LoadResolved(r) ==
  /\ ~effectPending
  /\ r.op = "load" /\ r.phase = "recover"
  /\ IF r.ok /\ Usable(r.resp)
     THEN /\ cart' = r.resp
          /\ loading' = FALSE
          /\ inflight' = inflight \ {r}
          /\ hist' = [HistSetCart(hist, r.id, r.op) EXCEPT !.loadEnd = "usable"]
          /\ effectPending' = TRUE
          /\ UNCHANGED <<remote, error>>
     ELSE /\ StartDemo(r)
          /\ error' = IF r.ok THEN error ELSE "Failed to load checkout"
          /\ UNCHANGED <<cart, loading, hist, effectPending>>
  /\ UNCHANGED <<steps, currentStep, thrown, updating, submitting, issued,
                 mounted, orderComplete, orders>>
  /\ PfNext(pf)

\* createDemoCart returned to fetchCart or loadCartByCheckoutId.
DemoCartCreated(r) ==
  /\ ~effectPending
  /\ r.phase = "demo"
  /\ cart' = r.resp
  /\ error' = IF r.op = "fetch" THEN NoError ELSE error
  /\ loading' = FALSE
  /\ inflight' = inflight \ {r}
  /\ hist' = IF r.op = "load"
             THEN [HistSetCart(hist, r.id, r.op) EXCEPT !.loadEnd = "unusable"]
             ELSE HistSetCart(hist, r.id, r.op)
  /\ effectPending' = TRUE
  /\ UNCHANGED <<steps, currentStep, thrown, updating, submitting, remote,
                 issued, mounted, orderComplete, orders>>
  /\ PfNext(pf)

\* Mutant of UpdateResolved: the awaiting form calls onNext whether the
\* update succeeded or was rejected.
UpdateResolved_AdvanceAnyway(r) ==
  /\ ~effectPending
  /\ r.op = "update"
  /\ inflight' = inflight \ {r}
  /\ updating' = FALSE
  /\ LET h == IF r.form = "none" THEN Hook ELSE nextStepFrom(r.at, Hook)
     IN  /\ SetHook(h)
         /\ effectPending' = (r.ok \/ h.currentStep # currentStep)
  /\ IF r.ok
     THEN /\ cart' = r.resp
          /\ error' = NoError
          /\ hist' = [HistSetCart(hist, r.id, r.op) EXCEPT
                        !.okUpd = Max(hist.okUpd, r.id),
                        !.advanced = @ \/ (r.form # "none")]
     ELSE /\ error' = "Failed to update cart"
          /\ UNCHANGED <<cart, hist>>
  /\ UNCHANGED <<loading, submitting, remote, issued, mounted,
                 orderComplete, orders>>
  /\ PfNext(pf)

\* Mutant of UpdateResolved: on success the submitted partial is merged into
\* the previous snapshot instead of replacing it by the response.
UpdateResolved_Merged(r) ==
  /\ ~effectPending
  /\ r.op = "update"
  /\ inflight' = inflight \ {r}
  /\ updating' = FALSE
  /\ IF r.ok
     THEN LET h == IF r.form = "none" THEN Hook ELSE nextStepFrom(r.at, Hook)
          IN  /\ cart' = ApplyUpdate(cart, r.payload)
              /\ error' = NoError
              /\ SetHook(h)
              /\ hist' = [HistSetCart(hist, r.id, r.op) EXCEPT
                            !.okUpd = Max(hist.okUpd, r.id),
                            !.advanced = @ \/ (r.form # "none")]
              /\ effectPending' = TRUE
     ELSE /\ error' = "Failed to update cart"
          /\ UNCHANGED <<cart, steps, currentStep, thrown, hist,
                         effectPending>>
  /\ UNCHANGED <<loading, submitting, remote, issued, mounted,
                 orderComplete, orders>>
  /\ PfNext(pf)

\* The response of swell.cart.update reaches updateCart; on success the
\* awaiting form handler then calls onNext, the nextStep of the render in
\* which the form was submitted.
UpdateResolved(r) ==
  /\ ~effectPending
  /\ r.op = "update"
  /\ inflight' = inflight \ {r}
  /\ updating' = FALSE
  /\ IF r.ok
     THEN LET h == IF r.form = "none" THEN Hook ELSE nextStepFrom(r.at, Hook)
          IN  /\ cart' = r.resp
              /\ error' = NoError
              /\ SetHook(h)
              /\ hist' = [HistSetCart(hist, r.id, r.op) EXCEPT
                            !.okUpd = Max(hist.okUpd, r.id),
                            !.advanced = @ \/ (r.form # "none")]
              /\ effectPending' = TRUE
     ELSE /\ error' = "Failed to update cart"
          /\ UNCHANGED <<cart, steps, currentStep, thrown, hist,
                         effectPending>>
  /\ UNCHANGED <<loading, submitting, remote, issued, mounted,
                 orderComplete, orders>>
  /\ PfNext(pf)

\* ------------------------------------------------------------ cart effect
RunEffect ==
  /\ effectPending
  /\ LET h == cartEffect(Hook, cart)
     IN  /\ SetHook(h)
         /\ effectPending' = (h.currentStep # currentStep)
  /\ UNCHANGED <<cart, loading, updating, submitting, error>>
  /\ hist' = HistEffect(hist, cart)
  /\ UNCHANGED <<remote, inflight, issued, mounted, orderComplete, orders>>
  /\ PfNext(pf)

\* ------------------------------------------------------------------ page
\* JavaScript truthiness of an optional string.
Truthy(v) == v # None /\ v # ""

\* A URL as the page reads it: the :checkoutId segment of the route (absent
\* on / and /checkout, never empty), and the query parameters checkout_id
\* and id (absent, empty or a value).
Urls ==
  [path : {None, "P"}, checkout_id : {None, "", "C"}, id : {None, "", "I"}]

\* The URLs the page-level specification starts from: no identifier, or one
\* in the path.
PageUrls ==
  {[path |-> None, checkout_id |-> None, id |-> None],
   [path |-> "P", checkout_id |-> None, id |-> None]}

\* Mutant of finalCheckoutId: the query parameter id is read before
\* checkout_id.
finalCheckoutId_IdFirst(url) ==
  IF Truthy(url.path) THEN url.path
  ELSE IF Truthy(url.id) THEN url.id
  ELSE url.checkout_id

\* checkoutId || searchParams.get('checkout_id') || searchParams.get('id')
finalCheckoutId(url) ==
  IF Truthy(url.path) THEN url.path
  ELSE IF Truthy(url.checkout_id) THEN url.checkout_id
  ELSE url.id

\* CheckoutPage's mount effect on the URL url:
\* finalCheckoutId ? loadCartByCheckoutId(finalCheckoutId) : fetchCart().
Mount(url) ==
  /\ ~mounted
  /\ mounted' = TRUE
  /\ IF Truthy(finalCheckoutId(url)) THEN loadCartByCheckoutId ELSE fetchCart
  /\ hist' = [hist EXCEPT
                !.url = url,
                !.loadArg = IF Truthy(finalCheckoutId(url))
                            THEN finalCheckoutId(url) ELSE None]
  /\ UNCHANGED <<steps, currentStep, thrown, effectPending, orderComplete,
                 orders>>
  /\ PfNext(pf)

\* A click on the i-th step indicator, enabled for a completed or active step.
ClickStep(i) ==
  /\ ~effectPending /\ MainView
  /\ steps[i].completed \/ steps[i].active
  /\ LET h == goToStep(Hook, steps[i].id)
     IN  /\ SetHook(h)
         /\ effectPending' = (h.currentStep # currentStep)
  /\ UNCHANGED <<cart, loading, updating, submitting, error>>
  /\ hist' = HistNavigate(hist, 0)
  /\ UNCHANGED <<remote, inflight, issued, mounted, orderComplete, orders>>
  /\ PfNext(pf)

\* Mutant of ClickBack: going back also drops the cached cart.
ClickBack_DropsCart ==
  /\ ~effectPending /\ MainView
  /\ currentStep \in {"shipping", "payment"}
  /\ LET h == prevStep(steps, Hook)
     IN  /\ SetHook(h)
         /\ effectPending' = TRUE
  /\ cart' = NullCart
  /\ UNCHANGED <<loading, updating, submitting, error>>
  /\ hist' = HistNavigate(hist, Max(findActive(steps) - 1, 0))
  /\ UNCHANGED <<remote, inflight, issued, mounted, orderComplete, orders>>
  /\ PfNext(pf)

\* The Back button of ShippingForm and PaymentForm (onPrev).
ClickBack ==
  /\ ~effectPending /\ MainView
  /\ currentStep \in {"shipping", "payment"}
  /\ LET h == prevStep(steps, Hook)
     IN  /\ SetHook(h)
         /\ effectPending' = (h.currentStep # currentStep)
  /\ UNCHANGED <<cart, loading, updating, submitting, error>>
  /\ hist' = HistNavigate(hist, Max(findActive(steps) - 1, 0))
  /\ UNCHANGED <<remote, inflight, issued, mounted, orderComplete, orders>>
  /\ PfNext(pf)

\* CustomerInfoForm.handleSubmit up to its await: validateForm, then
\* handleCustomerInfoSubmit, which calls updateCart.  The submit button is
\* disabled while updating.
SubmitCustomerInfo(data) ==
  /\ ~effectPending /\ MainView
  /\ currentStep = "customer"
  /\ ~updating
  /\ validateForm(data)
  /\ updateCart(allowedBillingFields(data), "customer", data)
  /\ UNCHANGED <<steps, currentStep, thrown, effectPending, mounted,
                 orderComplete, orders, hist>>
  /\ PfNext(pf)

\* ShippingForm.handleSubmit up to its await.
SubmitShipping(data) ==
  /\ ~effectPending /\ MainView
  /\ currentStep = "shipping"
  /\ ~updating
  /\ updateCart(allowedShippingFields(data), "shipping", data)
  /\ UNCHANGED <<steps, currentStep, thrown, effectPending, mounted,
                 orderComplete, orders, hist>>
  /\ PfNext(pf)

\* ------------------------------------------------------------ PaymentForm
PaymentFormMounted == MainView /\ currentStep = "payment"

\* ensureCartReady, run on mount: swell.cart.get() rejects, or returns a cart
\* without items, or a usable cart.
PaymentCartChecked ==
  /\ ~effectPending /\ PaymentFormMounted
  /\ ~pf.cartReady /\ ~pf.error
  /\ \E ok \in BOOLEAN :
       pf' = IF ok /\ Usable(remote)
             THEN [pf EXCEPT !.cartReady = TRUE]
             ELSE [pf EXCEPT !.error = TRUE]
  /\ UNCHANGED <<steps, currentStep, thrown, effectPending, cart, loading,
                 updating, submitting, error, remote, inflight, issued,
                 mounted, orderComplete, orders, hist>>

\* initializeStripeElements: onReady, onError, or createElements throws.
PaymentElementsInitialized ==
  /\ ~effectPending /\ PaymentFormMounted
  /\ pf.cartReady /\ pf.elements = "pending"
  /\ \E res \in {"ready", "error", "throw"} :
       pf' = IF res = "ready" THEN [pf EXCEPT !.error = FALSE,
                                              !.elements = "created"]
             ELSE [pf EXCEPT !.error = (res = "error"),
                             !.elements = "manual"]
  /\ UNCHANGED <<steps, currentStep, thrown, effectPending, cart, loading,
                 updating, submitting, error, remote, inflight, issued,
                 mounted, orderComplete, orders, hist>>

\* The card element's onChange: setError(event.error.message) or setError(null).
PaymentCardChanged(err) ==
  /\ ~effectPending /\ PaymentFormMounted
  /\ pf.elements = "created"
  /\ pf' = [pf EXCEPT !.error = err]
  /\ UNCHANGED <<steps, currentStep, thrown, effectPending, cart, loading,
                 updating, submitting, error, remote, inflight, issued,
                 mounted, orderComplete, orders, hist>>

\* loading || processing || (stripe && useStripeElements &&
\*   (!elementsCreated || !cartReady)) || !!error, with loading the page's
\* updating || submitting.
isButtonDisabled(method) ==
  \/ updating \/ submitting
  \/ pf.req # 0
  \/ (method = "stripe" /\ pf.elements # "manual"
        /\ (pf.elements # "created" \/ ~pf.cartReady))
  \/ pf.error

\* The first await of PaymentForm.handleSubmit: the card's tokenization for
\* stripe, swell.cart.update({billing: {method}}) for the other methods.
FirstAwait(method) == IF method = "stripe" THEN "tokenize" ELSE "update"

\* PaymentForm.handleSubmit up to its first await: tokenization (stripe) or
\* a direct swell.cart.update of the billing method (other methods).  The
\* platform answers now: on success the cart's billing holds the method.
SubmitPayment(method) ==
  /\ ~effectPending /\ PaymentFormMounted
  /\ ~isButtonDisabled(method)
  /\ issued < MaxCalls
  /\ \E ok \in BOOLEAN :
       LET p == [section |-> "billing", keys |-> {"method"},
                 filled |-> {"method"}]
           r2 == IF ok THEN ApplyUpdate(remote, p) ELSE remote
       IN  /\ remote' = r2
           /\ inflight' = inflight \cup
                {Request(issued + 1, "pay", FirstAwait(method), ok, r2, p, "payment",
                         steps, NoData)}
  /\ issued' = issued + 1
  /\ pf' = [pf EXCEPT !.req = issued + 1, !.error = FALSE]
  /\ UNCHANGED <<steps, currentStep, thrown, effectPending, cart, loading,
                 updating, submitting, error, mounted, orderComplete, orders,
                 hist>>

\* The first await of handleSubmit returns.  On failure the catch sets the
\* form's error; on success swell.cart.submitOrder() is called.  The platform
\* makes at most one order of a cart, and the cart is gone once it has.
PaymentPrepared(r) ==
  /\ ~effectPending
  /\ r.op = "pay" /\ r.phase \in {"tokenize", "update"}
  /\ IF ~r.ok
     THEN /\ inflight' = inflight \ {r}
          /\ pf' = IF pf.req = r.id
                   THEN [pf EXCEPT !.req = 0, !.error = TRUE] ELSE pf
          /\ UNCHANGED <<remote, orders, hist>>
     ELSE \E res \in {"order", "null", "reject"} :
            LET made == res = "order" /\ orders = 0 /\ Usable(remote)
            IN  /\ inflight' = (inflight \ {r}) \cup
                     {[r EXCEPT !.phase = "submit", !.ok = made]}
                /\ orders' = IF made THEN orders + 1 ELSE orders
                /\ remote' = IF made THEN [NullCart EXCEPT !.rev = remote.rev + 1]
                            ELSE remote
                /\ hist' = IF orderComplete
                           THEN [hist EXCEPT !.afterOrder = 1] ELSE hist
                /\ pf' = pf
  /\ UNCHANGED <<steps, currentStep, thrown, effectPending, cart, loading,
                 updating, submitting, error, issued, mounted, orderComplete>>

\* swell.cart.submitOrder() returns: onOrderComplete(order), or the catch.
PaymentSubmitted(r) ==
  /\ ~effectPending
  /\ r.op = "pay" /\ r.phase = "submit"
  /\ inflight' = inflight \ {r}
  /\ orderComplete' = (orderComplete \/ r.ok)
  /\ pf' = IF pf.req = r.id
           THEN [pf EXCEPT !.req = 0, !.error = ~r.ok] ELSE pf
  /\ UNCHANGED <<steps, currentStep, thrown, effectPending, cart, loading,
                 updating, submitting, error, remote, issued, mounted, orders,
                 hist>>

\* ------------------------------------------- the hooks called directly
\* Any component may call what the two hooks export, with any argument and
\* in any state.
CallGoToStep(stepId) ==
  /\ ~effectPending
  /\ LET h == goToStep(Hook, stepId)
     IN  /\ SetHook(h)
         /\ effectPending' = (h.currentStep # currentStep)
  /\ UNCHANGED <<cart, loading, updating, submitting, error>>
  /\ hist' = HistNavigate(hist, 0)
  /\ UNCHANGED <<remote, inflight, issued, mounted, orderComplete, orders>>
  /\ PfNext(pf)

CallCompleteStep(stepId) ==
  /\ ~effectPending
  /\ SetHook(completeStep(Hook, stepId))
  /\ hist' = [hist EXCEPT !.advanced = TRUE]
  /\ UNCHANGED <<effectPending, cart, loading, updating, submitting, error,
                 remote, inflight, issued, mounted, pf, orderComplete, orders>>

CallNextStep ==
  /\ ~effectPending
  /\ LET h == nextStep(steps, Hook)
     IN  /\ SetHook(h)
         /\ effectPending' = (h.currentStep # currentStep)
  /\ UNCHANGED <<cart, loading, updating, submitting, error>>
  /\ hist' = [HistNavigate(hist, 0) EXCEPT !.advanced = TRUE]
  /\ UNCHANGED <<remote, inflight, issued, mounted, orderComplete, orders>>
  /\ PfNext(pf)

CallPrevStep ==
  /\ ~effectPending
  /\ LET h == prevStep(steps, Hook)
     IN  /\ SetHook(h)
         /\ effectPending' = (h.currentStep # currentStep)
  /\ UNCHANGED <<cart, loading, updating, submitting, error>>
  /\ hist' = HistNavigate(hist, Max(findActive(steps) - 1, 0))
  /\ UNCHANGED <<remote, inflight, issued, mounted, orderComplete, orders>>
  /\ PfNext(pf)

\* useCheckoutSteps(cart) is rendered with another cart object: any cart the
\* platform can return.
CartChanged(c) ==
  /\ ~effectPending
  /\ cart' = c
  /\ effectPending' = TRUE
  /\ hist' = HistSetCart(hist, 0, "prop")
  /\ UNCHANGED <<steps, currentStep, thrown, loading, updating, submitting,
                 error, remote, inflight, issued, mounted, orderComplete,
                 orders>>
  /\ PfNext(pf)

DirectPayloads ==
  {[section |-> "billing", keys |-> {"first_name", "last_name"},
    filled |-> {"first_name", "last_name"}],
   [section |-> "shipping", keys |-> {"address1"}, filled |-> {"address1"}]}

\* awaited: the caller awaits the update and then calls the nextStep it holds,
\* as the forms do.
CallUpdateCart(updates, awaited) ==
  /\ ~effectPending
  /\ issued < MaxDirectCalls
  /\ updateCart(updates, IF awaited THEN "caller" ELSE "none", NoData)
  /\ UNCHANGED <<steps, currentStep, thrown, effectPending, mounted,
                 orderComplete, orders, hist>>
  /\ PfNext(pf)

CallFetchCart ==
  /\ ~effectPending
  /\ issued < MaxDirectCalls
  /\ fetchCart
  /\ UNCHANGED <<steps, currentStep, thrown, effectPending, mounted,
                 orderComplete, orders, hist>>
  /\ PfNext(pf)

\* ------------------------------------------------- useCart.submitOrder
\* How an awaited SDK call ends: it resolves, or rejects with an error whose
\* code is one of the three the catch tells apart or anything else.
ErrorCodes == {"validation_error", "payment_error", "inventory_error", "other"}
Outcomes == {"ok"} \cup ErrorCodes
\* The same for a call whose rejection submitOrder swallows whatever its code.
Swallowed == {"ok", "other"}

\* Mutant of submitErrorMessage: the code is not looked at.
submitErrorMessage_Generic(code) == "Failed to submit order"

\* The catch's errorMessage; "null" is the Error thrown for a missing order,
\* which has no code.
submitErrorMessage(code) ==
  CASE code = "validation_error" -> "Order validation failed: <err.message>"
    [] code = "payment_error" ->
         "Payment processing failed. Please check your payment details."
    [] code = "inventory_error" ->
         "Some items are no longer available. Please review your cart."
    [] OTHER -> "Failed to submit order"

\* swell.cart.update({account_id}) and
\* swell.cart.update({billing: {...currentCartState.billing, method}}).
AccountPayload == [section |-> "account", keys |-> {}, filled |-> {}]
BillingWithMethod(c) ==
  [section |-> "billing",
   keys |-> {"first_name", "last_name", "email", "method"},
   filled |-> {"method"} \cup (IF c.first THEN {"first_name"} ELSE {})
                         \cup (IF c.last THEN {"last_name"} ELSE {})
                         \cup (IF c.email THEN {"email"} ELSE {})]

\* Request r suspended at its next call, which ends as out with answer resp.
Await(r, phase, out, resp) ==
  [r EXCEPT !.phase = phase, !.ok = (out = "ok"), !.resp = resp,
            !.code = IF out = "ok" THEN "none" ELSE out]

\* submitOrder goes on to its next await: the platform handles the call now
\* (rem is its cart if the call goes through) and answers later.
SubmitAwait(r, phase, rem) ==
  \E out \in IF phase \in {"get", "refresh", "account", "final"}
             THEN Outcomes ELSE Swallowed :
    LET r2 == IF out = "ok" THEN rem ELSE remote
    IN  /\ remote' = r2
        /\ inflight' = (inflight \ {r}) \cup {Await(r, phase, out, r2)}

\* Mutant of SubmitCatch: the catch without the finally.
SubmitCatch_NoFinally(r) ==
  /\ inflight' = inflight \ {r}
  /\ error' = submitErrorMessage(r.code)
  /\ hist' = [hist EXCEPT !.submitEnd = r.code]
  /\ UNCHANGED <<cart, remote, orders, effectPending, submitting>>

\* The catch and the finally of submitOrder: setError(errorMessage),
\* throw err, setSubmitting(false).
SubmitCatch(r) ==
  /\ inflight' = inflight \ {r}
  /\ error' = submitErrorMessage(r.code)
  /\ submitting' = FALSE
  /\ hist' = [hist EXCEPT !.submitEnd = r.code]
  /\ UNCHANGED <<cart, remote, orders, effectPending>>

\* return order, and the finally.
SubmitReturn(r) ==
  /\ inflight' = inflight \ {r}
  /\ submitting' = FALSE
  /\ hist' = [hist EXCEPT !.submitEnd = "order"]
  /\ UNCHANGED <<cart, remote, orders, effectPending>>

\* Past the account block: the billing method's cart.get when paymentInfo
\* has a method, else the final cart.get.
AfterAccount(r) ==
  SubmitAwait(r, IF r.payload = NoPayload THEN "final" ELSE "methodGet",
              remote)

\* submitOrder(customerEmail, paymentInfo) up to its first await.
CallSubmitOrder(customerEmail, paymentInfo) ==
  /\ ~effectPending
  /\ issued < MaxDirectCalls
  /\ submitting' = TRUE
  /\ issued' = issued + 1
  /\ \E out \in Outcomes :
       inflight' = inflight \cup
         {Await(Request(issued + 1, "submit", "get", TRUE, remote,
                        IF paymentInfo
                        THEN [section |-> "billing", keys |-> {"method"},
                              filled |-> {"method"}]
                        ELSE NoPayload,
                        "none", initialSteps,
                        IF customerEmail
                        THEN [keys |-> {"email"}, filled |-> {"email"}]
                        ELSE NoData),
                "get", out, remote)}
  /\ UNCHANGED <<steps, currentStep, thrown, effectPending, cart, loading,
                 updating, error, remote, mounted, orderComplete, orders,
                 hist>>
  /\ PfNext(pf)

\* The first swell.cart.get() returns; hasAccount: the cart it returned has
\* an account_id.
SubmitCartRead(r) ==
  /\ ~effectPending
  /\ r.op = "submit" /\ r.phase = "get"
  /\ IF ~r.ok
     THEN SubmitCatch(r)
     ELSE /\ \E hasAccount \in BOOLEAN :
               /\ IsNull(r.resp) => ~hasAccount
               /\ LET emailToUse == "email" \in r.data.filled \/ r.resp.email
                  IN  IF emailToUse /\ ~hasAccount
                      THEN SubmitAwait(r, "create", remote)
                      ELSE AfterAccount(r)
          /\ UNCHANGED <<cart, error, submitting, orders, hist, effectPending>>
  /\ UNCHANGED <<steps, currentStep, thrown, loading, updating, issued,
                 mounted, orderComplete>>
  /\ PfNext(pf)

\* The account block: createGuestAccount returns an account or null (it
\* never throws), the association's failure is swallowed, the refreshed cart
\* is set as the cart, and swell.account.get() is asked when that cart still
\* has no account_id.
SubmitAccountStep(r) ==
  /\ ~effectPending
  /\ r.op = "submit"
  /\ r.phase \in {"create", "associate", "refresh", "account"}
  /\ IF r.phase = "create"
     THEN /\ IF r.ok
             THEN SubmitAwait(r, "associate", ApplyUpdate(remote, AccountPayload))
             ELSE SubmitAwait(r, "refresh", remote)
          /\ UNCHANGED <<cart, error, submitting, orders, hist, effectPending>>
     ELSE IF r.phase = "associate"
     THEN /\ SubmitAwait(r, "refresh", remote)
          /\ UNCHANGED <<cart, error, submitting, orders, hist, effectPending>>
     ELSE IF ~r.ok
     THEN SubmitCatch(r)
     ELSE IF r.phase = "refresh"
     THEN /\ cart' = r.resp
          /\ hist' = HistSetCart(hist, r.id, r.op)
          /\ effectPending' = TRUE
          /\ \E hasAccount \in BOOLEAN :
               /\ IsNull(r.resp) => ~hasAccount
               /\ IF hasAccount THEN AfterAccount(r)
                  ELSE SubmitAwait(r, "account", remote)
          /\ UNCHANGED <<error, submitting, orders>>
     ELSE /\ AfterAccount(r)
          /\ UNCHANGED <<cart, error, submitting, orders, hist, effectPending>>
  /\ UNCHANGED <<steps, currentStep, thrown, loading, updating, issued,
                 mounted, orderComplete>>
  /\ PfNext(pf)

\* The billing method block, whose errors are swallowed; same: the cart
\* read already has paymentInfo.method as its billing method.
SubmitMethodStep(r) ==
  /\ ~effectPending
  /\ r.op = "submit" /\ r.phase \in {"methodGet", "methodUpdate"}
  /\ \E same \in BOOLEAN :
       /\ same => r.resp.method
       /\ IF r.phase = "methodGet" /\ r.ok /\ ~same
          THEN SubmitAwait(r, "methodUpdate",
                           ApplyUpdate(remote, BillingWithMethod(r.resp)))
          ELSE SubmitAwait(r, "final", remote)
  /\ UNCHANGED <<cart, error, submitting, orders, hist, effectPending>>
  /\ UNCHANGED <<steps, currentStep, thrown, loading, updating, issued,
                 mounted, orderComplete>>
  /\ PfNext(pf)

\* The final swell.cart.get() returns and swell.cart.submitOrder() is
\* called: the platform makes the order, answers with no order, or rejects.
SubmitFinalRead(r) ==
  /\ ~effectPending
  /\ r.op = "submit" /\ r.phase = "final"
  /\ IF ~r.ok
     THEN SubmitCatch(r)
     ELSE /\ \E res \in {"order", "null"} \cup ErrorCodes :
               LET made == res = "order" /\ orders = 0 /\ Usable(remote)
                   r2 == IF made THEN [NullCart EXCEPT !.rev = remote.rev + 1]
                         ELSE remote
               IN  /\ orders' = IF made THEN orders + 1 ELSE orders
                   /\ remote' = r2
                   /\ inflight' = (inflight \ {r}) \cup
                        {[r EXCEPT !.phase = "order", !.ok = made, !.resp = r2,
                                   !.code = IF made THEN "none"
                                            ELSE IF res \in ErrorCodes THEN res
                                            ELSE "null"]}
          /\ UNCHANGED <<cart, error, submitting, hist, effectPending>>
  /\ UNCHANGED <<steps, currentStep, thrown, loading, updating, issued,
                 mounted, orderComplete>>
  /\ PfNext(pf)

\* swell.cart.submitOrder() returns: the catch for a rejection or a missing
\* order; else setError(null) and, for an unpaid order with paymentInfo, the
\* payment's processing.
SubmitOrderReturned(r) ==
  /\ ~effectPending
  /\ r.op = "submit" /\ r.phase = "order"
  /\ IF ~r.ok
     THEN SubmitCatch(r)
     ELSE /\ error' = NoError
          /\ \E unpaid \in BOOLEAN :
               IF unpaid /\ r.payload # NoPayload
               THEN /\ \E out \in Swallowed :
                         inflight' = (inflight \ {r}) \cup
                                       {Await(r, "payment", out, r.resp)}
                    /\ UNCHANGED <<cart, remote, orders, effectPending,
                                   submitting, hist>>
               ELSE SubmitReturn(r)
  /\ UNCHANGED <<steps, currentStep, thrown, loading, updating, issued,
                 mounted, orderComplete>>
  /\ PfNext(pf)

\* The payment's processing ends; its errors are swallowed.
SubmitPaymentProcessed(r) ==
  /\ ~effectPending
  /\ r.op = "submit" /\ r.phase = "payment"
  /\ SubmitReturn(r)
  /\ UNCHANGED error
  /\ UNCHANGED <<steps, currentStep, thrown, loading, updating, issued,
                 mounted, orderComplete>>
  /\ PfNext(pf)

CallLoadCartByCheckoutId ==
  /\ ~effectPending
  /\ issued < MaxDirectCalls
  /\ loadCartByCheckoutId
  /\ UNCHANGED <<steps, currentStep, thrown, effectPending, mounted,
                 orderComplete, orders, hist>>
  /\ PfNext(pf)

Next ==
  \/ \E url \in PageUrls : Mount(url)
  \/ RunEffect
  \/ \E r \in inflight : FetchResolved(r)
  \/ \E r \in inflight : LoadResolved(r)
  \/ \E r \in inflight : DemoCartCreated(r)
  \/ \E r \in inflight : UpdateResolved(r)
  \/ \E i \in 1..NumSteps : ClickStep(i)
  \/ ClickBack
  \/ \E data \in CustomerInputs : SubmitCustomerInfo(data)
  \/ \E data \in ShippingInputs : SubmitShipping(data)
  \/ PaymentCartChecked
  \/ PaymentElementsInitialized
  \/ \E err \in BOOLEAN : PaymentCardChanged(err)
  \/ \E method \in {"stripe", "paypal"} : SubmitPayment(method)
  \/ \E r \in inflight : PaymentPrepared(r)
  \/ \E r \in inflight : PaymentSubmitted(r)

\* The checkout page as the user drives it.
Spec == Init /\ [][Next]_vars

\* useCheckoutSteps under any caller and any sequence of carts.
NextSteps ==
  \/ RunEffect
  \/ \E stepId \in StepIdSet \cup {Bogus} : CallGoToStep(stepId)
  \/ \E stepId \in StepIdSet : CallCompleteStep(stepId)
  \/ CallNextStep
  \/ CallPrevStep
  \/ \E c \in InitialCarts \ {NullCart} : CartChanged(c)

SpecSteps == InitWith({NullCart}) /\ [][NextSteps]_vars

\* useCart under any caller, with useCheckoutSteps observing its cart.
NextCart ==
  \/ RunEffect
  \/ \E r \in inflight : FetchResolved(r)
  \/ \E r \in inflight : LoadResolved(r)
  \/ \E r \in inflight : DemoCartCreated(r)
  \/ \E r \in inflight : UpdateResolved(r)
  \/ \E updates \in DirectPayloads, awaited \in BOOLEAN :
       CallUpdateCart(updates, awaited)
  \/ CallFetchCart
  \/ CallLoadCartByCheckoutId

\* The page's load on any URL, up to the first cart.
NextUrl ==
  \/ \E url \in Urls : Mount(url)
  \/ RunEffect
  \/ \E r \in inflight : FetchResolved(r)
  \/ \E r \in inflight : LoadResolved(r)
  \/ \E r \in inflight : DemoCartCreated(r)

\* The carts the direct caller's session starts from: none, one without
\* items, one with items only, one with the customer's data as well.
DirectCarts ==
  {NullCart,
   Cart("platform", FALSE, FALSE, FALSE, FALSE, FALSE, FALSE, 0),
   Cart("platform", TRUE, FALSE, FALSE, FALSE, FALSE, FALSE, 0),
   Cart("platform", TRUE, TRUE, TRUE, TRUE, FALSE, FALSE, 0)}

SpecCart == InitWith(DirectCarts) /\ [][NextCart]_vars

SpecUrl == InitWith(DirectCarts) /\ [][NextUrl]_vars

\* useCart under any caller of its four operations.
NextSubmit ==
  \/ NextCart
  \/ \E customerEmail \in BOOLEAN, paymentInfo \in BOOLEAN :
       CallSubmitOrder(customerEmail, paymentInfo)
  \/ \E r \in inflight : SubmitCartRead(r)
  \/ \E r \in inflight : SubmitAccountStep(r)
  \/ \E r \in inflight : SubmitMethodStep(r)
  \/ \E r \in inflight : SubmitFinalRead(r)
  \/ \E r \in inflight : SubmitOrderReturned(r)
  \/ \E r \in inflight : SubmitPaymentProcessed(r)

SpecSubmit == InitWith(DirectCarts) /\ [][NextSubmit]_vars

\* Every awaited SDK call eventually resolves or rejects and its handler
\* goes on; React runs a pending effect.
Delivery ==
  \/ RunEffect
  \/ \E r \in inflight :
       \/ FetchResolved(r) \/ LoadResolved(r) \/ DemoCartCreated(r)
       \/ UpdateResolved(r)
       \/ SubmitCartRead(r) \/ SubmitAccountStep(r) \/ SubmitMethodStep(r)
       \/ SubmitFinalRead(r) \/ SubmitOrderReturned(r)
       \/ SubmitPaymentProcessed(r)

\* useCart under any caller, on a session without a cart, with every call
\* answered.
SpecSubmitLive ==
  InitWith({NullCart}) /\ [][NextSubmit]_vars /\ WF_vars(Delivery)
\* =================================================================
\* Properties
\* =================================================================

\* C1 Monotonic completion: no step of any behaviour (goToStep, completeStep,
\* nextStep, prevStep, or the cart effect after any change of cart) takes a
\* step's completed flag from true to false.
C1_MonotonicCompletion ==
  [][\A i \in 1..NumSteps : steps[i].completed => steps'[i].completed]_vars

\* C1 witness: shipping is completed, the effect has run on a cart that has no
\* shipping address (the derivation alone would give false), and the user is
\* back on the first step.
C1_Witness ==
  /\ ~effectPending
  /\ ~IsNull(cart) /\ ~hasShipping(cart)
  /\ steps[2].completed
  /\ steps[1].active

\* C2 Single active step: exactly one step has active = true.
C2_SingleActiveStep == Cardinality(ActiveSet(steps)) = 1

\* C3 Gated navigation: a goToStep(stepId) call that changes which step is
\* active was made for a step that was completed or active.
C3_GatedNavigation ==
  [][\A stepId \in StepIdSet \cup {Bogus} :
       (CallGoToStep(stepId) /\ ActiveSet(steps') # ActiveSet(steps))
         => \E i \in 1..NumSteps :
              /\ steps[i].id = stepId
              /\ steps[i].completed \/ steps[i].active]_vars

\* C4 Stale-response protection: once no update is in flight, a cache that
\* holds the response of an update holds the response of the update issued
\* last among those that succeeded, whatever the order of arrival.
C4_StaleResponseProtection ==
  ((\A r \in inflight : r.op # "update") /\ hist.writerOp = "update")
    => hist.writer >= hist.okUpd

\* C5 Auto-skip runs once: after the user has navigated by hand (prevStep or
\* goToStep), a run of the cart effect leaves the active step where it is.
C5_AutoSkipOnce ==
  [][(hist.navigated /\ effectPending)
       => (ActiveSet(steps') = ActiveSet(steps)
           /\ currentStep' = currentStep)]_vars

\* The first step, in the order customer, shipping, payment, review, whose
\* cart data is missing; review when none is.
FirstMissing(c) ==
  IF ~(c.first /\ c.last /\ c.email) THEN 1
  ELSE IF ~c.addr1 THEN 2
  ELSE IF ~c.method THEN 3
  ELSE 4

\* The cart holds the data of step i (review has none).
DataPresent(i, c) ==
  \/ i = 1 /\ c.first /\ c.last /\ c.email
  \/ i = 2 /\ c.addr1
  \/ i = 3 /\ c.method

\* C6 Auto-skip on resume: once the first loaded cart has been set and the
\* cart effect has settled, with no navigation by hand, the one active step
\* is the first step whose cart data is missing (review when none is), and
\* the completed steps are those whose data the cart holds.
C6_AutoSkipOnResume ==
  (hist.cartSets = 1 /\ ~hist.navigated /\ ~effectPending)
    => /\ ActiveSet(steps) = {FirstMissing(cart)}
       /\ currentStep = StepOrder[FirstMissing(cart)]
       /\ \A i \in 1..NumSteps : steps[i].completed <=> DataPresent(i, cart)

\* C6 witness: the first loaded cart has billing first/last/email and a
\* shipping address1 but no payment method; payment is active, customer and
\* shipping are completed.
C6_Witness ==
  /\ hist.cartSets = 1 /\ ~hist.navigated /\ ~effectPending
  /\ cart.first /\ cart.last /\ cart.email /\ cart.addr1 /\ ~cart.method
  /\ steps[3].active
  /\ steps[1].completed /\ steps[2].completed

\* C7 Terminal identifier failure: when loadCartByCheckoutId ended without a
\* usable cart (swell.cart.recover rejected, or returned nothing or a cart
\* without items) and the cache still holds what it set, an error is set and
\* the cached cart is no demo cart.
C7_TerminalIdentifierFailure ==
  (hist.loadEnd = "unusable" /\ hist.writerOp = "load")
    => (error # NoError /\ cart.origin \notin {"demo", "literal"})

\* C8 Field whitelisting: the payload of every update issued by
\* handleCustomerInfoSubmit or handleShippingSubmit holds allowed address
\* fields only.
C8_FieldWhitelisting ==
  \A r \in inflight :
    (r.op = "update" /\ r.form \in {"customer", "shipping"})
      => r.payload.keys \subseteq AllowedAddressFields

\* C8 witness: an update issued by handleCustomerInfoSubmit is in flight and
\* the form data it was built from held a confirmation flag and the email.
C8_Witness ==
  \E r \in inflight :
    /\ r.op = "update" /\ r.form = "customer"
    /\ {"confirm", "email"} \subseteq r.data.keys

\* C9 Submit once: swell.cart.submitOrder is not called again once a
\* submission has returned an order.
C9_SubmitOnce == hist.afterOrder = 0

\* C10 Leaving a step during an in-flight update: when the response of a
\* form's update arrives while another step is the current one, the steps
\* and the current step stay as they are.
C10_NoAdvanceForLeftStep ==
  [][\A r \in inflight :
       (/\ r.op = "update" /\ r.form \in {"customer", "shipping"}
        /\ r \notin inflight'
        /\ currentStep # r.form)
         => (steps' = steps /\ currentStep' = currentStep)]_vars

\* C11 Request-issue ordering across operations: once nothing is in flight,
\* a cache last written by fetchCart or loadCartByCheckoutId holds the
\* response of the latest-issued operation among those that set it; a load
\* issued before an update does not end up over the update's result.
C11_IssueOrder ==
  (inflight = {} /\ hist.writerOp \in {"fetch", "load"})
    => hist.writer = hist.latest

\* C12 Recoverable errors: after a failed update the page still presents
\* its main view (the steps and the current step's form) and not the
\* full-page error view.
C12_RecoverableErrors ==
  error = "Failed to update cart" => (MainView /\ ~ErrorView)

\* C13 Failures are surfaced: when a fetchCart or loadCartByCheckoutId in
\* which a platform call was rejected has ended (the cache holds the literal
\* cart that createDemoCart returns from its catch), the error state is set.
C13_FailuresSurfaced ==
  (hist.writerOp \in {"fetch", "load"} /\ cart.origin = "literal")
    => error # NoError

\* C14 Cache replaced by the response: issuing an update leaves the cached
\* cart as it is; when its response arrives the cache becomes exactly the
\* returned cart on success and stays as it is on failure.
C14_CacheFromResponse ==
  [][/\ \A r \in inflight' \ inflight : r.op = "update" => cart' = cart
     /\ \A r \in inflight \ inflight' :
          r.op = "update" => cart' = (IF r.ok THEN r.resp ELSE cart)]_vars

\* C14 witness: an update has succeeded and a later one has failed; the cache
\* holds the response of the first.
C14_Witness ==
  /\ inflight = {}
  /\ hist.writerOp = "update"
  /\ error = "Failed to update cart"
  /\ cart.rev > 0

\* C15 advance: nextStep with active step i, not the last, sets completed of
\* step i, makes step i + 1 the one active step and changes nothing else;
\* with the last step active it changes nothing.
C15_Advance ==
  [][CallNextStep =>
       LET i == findActive(steps)
       IN  /\ i \in 1..(NumSteps - 1) =>
                /\ steps' = [k \in 1..NumSteps |->
                               [steps[k] EXCEPT
                                  !.completed = (steps[k].completed \/ k = i),
                                  !.active = (k = i + 1)]]
                /\ currentStep' = StepOrder[i + 1]
           /\ i = NumSteps => (steps' = steps /\ currentStep' = currentStep)]_vars

\* C15 witness: with no cart, nextStep has taken the flow from customer to
\* payment: customer and shipping are completed, payment is active.
C15_Witness ==
  /\ IsNull(cart) /\ hist.navigated /\ ~thrown
  /\ steps[1].completed /\ steps[2].completed /\ ~steps[3].completed
  /\ ActiveSet(steps) = {3}

\* C16 retreat: once the cart effect has settled after a prevStep, the step
\* that preceded the active one is the one active step.
C16_RetreatSettles ==
  (hist.retreatTo # 0 /\ ~effectPending)
    => ActiveSet(steps) = {hist.retreatTo}

C18_SubmitFromReviewOnly ==
  [][(\E r \in inflight' : r.phase = "submit" /\ r.id \notin
                                {q.id : q \in {x \in inflight : x.phase = "submit"}})
       => (currentStep = "review" /\ ActiveSet(steps) = {NumSteps})]_vars

\* C19 Tokenization failure is a hard payment error: once the initialisation
\* of the payment elements has failed (the form is in its manual fallback),
\* the form shows an error and has no submission under way.
C19_HardPaymentError ==
  pf.elements = "manual" => (pf.error /\ pf.req = 0)

\* The identifier of a URL: the path segment if there is one, else a
\* non-empty checkout_id parameter, else a non-empty id parameter, else None.
Identifier(url) ==
  IF url.path \notin {None, ""} THEN url.path
  ELSE IF url.checkout_id \notin {None, ""} THEN url.checkout_id
  ELSE IF url.id \notin {None, ""} THEN url.id
  ELSE None

\* The operations of useCart called so far, in flight or ended.
OpsCalled ==
  {r.op : r \in inflight} \cup ({hist.writerOp} \ {"none"})
    \cup (IF error = "Failed to fetch cart" THEN {"fetch"} ELSE {})
    \cup (IF error = "Failed to load checkout" THEN {"load"} ELSE {})

\* C20 Checkout identifier resolution: once mounted on a URL with an
\* identifier the page has called loadCartByCheckoutId with that identifier
\* and not fetchCart; on a URL without one it has called fetchCart and not
\* loadCartByCheckoutId.
C20_IdentifierResolution ==
  mounted =>
    /\ issued = 1
    /\ hist.loadArg = Identifier(hist.url)
    /\ OpsCalled = (IF Identifier(hist.url) # None THEN {"load"} ELSE {"fetch"})

\* C20 witness: mounted on /checkout?checkout_id=C&id=I, the page is loading
\* the cart of C.
C20_Witness ==
  /\ mounted
  /\ hist.url = [path |-> None, checkout_id |-> "C", id |-> "I"]
  /\ hist.loadArg = "C"
  /\ \E r \in inflight : r.op = "load"

\* C21 Advance only after a successful update: a customer or shipping update
\* is issued only for data that passes the form's validation; when its
\* response is a rejection the steps and the current step stay as they are;
\* and outside the cart effect the customer or shipping step becomes
\* completed only in the step that delivers the successful response of that
\* step's own update.
C21_AdvanceAfterSuccess ==
  [][/\ \A r \in inflight' :
          r.form = "customer" => RequiredCustomerFields \subseteq r.data.filled
     /\ \A r \in inflight \ inflight' :
          (r.op = "update" /\ ~r.ok)
            => (steps' = steps /\ currentStep' = currentStep)
     /\ \A i \in 1..2 :
          (~effectPending /\ ~steps[i].completed /\ steps'[i].completed)
            => \E r \in inflight \ inflight' :
                 r.op = "update" /\ r.ok /\ r.form = StepOrder[i]]_vars

\* C21 witness: the customer form's update was rejected; customer is still
\* the active step and is not completed.
C21_Witness ==
  /\ inflight = {} /\ error = "Failed to update cart"
  /\ ~hist.advanced
  /\ currentStep = "customer" /\ ActiveSet(steps) = {1}
  /\ ~steps[1].completed

\* C22 The step hook raises no errors: no call of goToStep, completeStep,
\* nextStep or prevStep, in any state of the hook, has thrown.
C22_NoThrow == ~thrown

\* The cart updates of the step forms that are in flight: updateCart calls of
\* the customer and shipping forms and the payment form's own
\* swell.cart.update.
FormUpdatesInFlight ==
  {r \in inflight :
     \/ r.op = "update" /\ r.form \in {"customer", "shipping"}
     \/ r.op = "pay" /\ r.phase = "update"}

\* C23 Serialized updates: at most one cart update issued by the step forms
\* is in flight.
C23_SerializedUpdates == Cardinality(FormUpdatesInFlight) <= 1

\* The requests that end in this step: in flight before it, gone after it.
Ended == {r \in inflight : \A q \in inflight' : q.id # r.id}

\* C25 Submit failure classification: when submitOrder fails, the error
\* recorded is the one of the failure's code (its own for validation_error,
\* payment_error and inventory_error, the generic one for anything else and
\* for a missing order), and the failure is rethrown to the caller.  (The
\* payment's processing after the order was made cannot fail submitOrder.)
C25_SubmitFailureClassification ==
  [][\A r \in Ended :
       (r.op = "submit" /\ ~r.ok /\ r.phase # "payment") =>
         /\ hist'.submitEnd = r.code
         /\ ~submitting'
         /\ r.code = "validation_error" =>
              error' = "Order validation failed: <err.message>"
         /\ r.code = "payment_error" =>
              error' = "Payment processing failed. Please check your payment details."
         /\ r.code = "inventory_error" =>
              error' = "Some items are no longer available. Please review your cart."
         /\ r.code \in {"other", "null"} => error' = "Failed to submit order"]_vars

\* The platform returned no order: the generic error is recorded and the
\* failure rethrown.
C25_Witness ==
  /\ hist.submitEnd = "null"
  /\ error = "Failed to submit order"
  /\ inflight = {} /\ ~submitting

\* C24 Eventual surfacing: with every SDK call answered, every issued
\* fetchCart, loadCartByCheckoutId, updateCart and submitOrder ends, it ends
\* with the cart set, the order returned or an error recorded, and loading,
\* updating and submitting each return to false.
C24_EventualSurfacing ==
  /\ \A i \in 1..MaxDirectCalls :
       (\E r \in inflight : r.id = i) ~> ~(\E r \in inflight : r.id = i)
  /\ loading ~> ~loading
  /\ updating ~> ~updating
  /\ submitting ~> ~submitting
  /\ [][\A r \in Ended :
          \/ error' # NoError
          \/ hist'.writer = r.id
          \/ r.op = "submit" /\ hist'.submitEnd = "order"]_vars

\* A submitOrder that went through every block has returned its order while
\* nothing else is in flight.
C24_Witness ==
  /\ hist.submitEnd = "order" /\ hist.writerOp = "submit"
  /\ inflight = {} /\ ~submitting /\ ~loading /\ ~updating

\* C26 Single writer, read-only consumers: the cached cart changes only in a
\* step in which a fetchCart, loadCartByCheckoutId, updateCart or submitOrder
\* of useCart sets it, and a step of the step hook alone (goToStep, prevStep,
\* the cart effect: no response is handled in it) leaves the cached cart and
\* the platform's cart as they are and issues no call.
C26_SingleWriter ==
  [][/\ cart' # cart =>
          \E r \in inflight :
            /\ r.op \in {"fetch", "load", "update", "submit"}
            /\ hist'.writer = r.id /\ hist'.writerOp = r.op
     /\ (inflight' = inflight /\ (steps' # steps \/ currentStep' # currentStep))
          => UNCHANGED <<cart, remote, issued>>]_vars

\* The user went back by hand from a later step while a cart was cached, and
\* the cart effect has run since.
C26_Witness ==
  /\ hist.retreatTo > 0 /\ hist.cartSets >= 1
  /\ ~IsNull(cart) /\ cart = remote
  /\ ~effectPending

C28_NeverFabricated ==
  /\ cart.origin # "literal"
  /\ remote.origin # "demo"

\* C29 In-flight flags are accurate under overlap: updating is true exactly
\* when at least one updateCart call is in flight, also when two of them
\* overlap and one has finished.
C29_FlagsAccurate ==
  updating <=> (\E r \in inflight : r.op = "update")

\* C30 Cache follows the remote cart: once no operation is in flight (and no
\* order has turned the platform's cart into an order), a cache that holds a
\* cart the platform returned equals the platform's cart.
C30_CacheFollowsRemote ==
  (inflight = {} /\ orders = 0 /\ ~IsNull(cart) /\ cart.origin # "literal")
    => cart = remote
====
